---- MODULE Spec2Model ----
(***************************************************************************)
(* htmlc: the template expansion engine of ComponentParser                 *)
(* (src/unnamed/part_000, lines 1-430) and the build around it.            *)
(*                                                                         *)
(* Texts are sequences of lexemes.  A lexeme is a string that the regular  *)
(* expressions of the program treat as a unit: "<!--", "-->", "<", "/>",   *)
(* ">", a word ([A-Za-z0-9_/]+), a quote, a directive marker and so on.    *)
(* Every regular expression of the source is translated to a scan over     *)
(* lexemes that finds the same matches in the same order.                  *)
(***************************************************************************)
EXTENDS Integers, Sequences, FiniteSets, TLC

\* With(e, LAMBDA x : body) is body with x bound to the value of e.
With(x, F(_)) == F(x)

(***************************************************************************)
(* Lexemes                                                                 *)
(***************************************************************************)

\* Words: lexemes made of [A-Za-z0-9_/] only (component names, attribute
\* names, identifiers, plain alphanumeric text).
Words ==
    {"A", "B", "M", "L", "K", "S", "P", "R", "br", "x", "y", "v", "items", "page",
     "main", "login", "other", "hasUsers", "users", "user", "showEmail", "a", "b",
     "t", "w", "COMMENT_PLACEHOLDER_0",
     "COMMENT_PLACEHOLDER_1", "COMMENT_PLACEHOLDER_2", "undefined", "true",
     "false"}

\* The lexemes that contain the character '>'.
GtLexemes == {">", "/>", "-->"}

\* Lexemes that are white space (String.prototype.trim removes them).
IsSpace(tok) == tok \in {" ", "\n"}

\* The text of `{{key}}`.
Placeholder(key) == "{{" \o key \o "}}"

\* The text of `{% for item in list %}`.
ForTok(item, list) == "{% for " \o item \o " in " \o list \o " %}"

Q == "\""

(***************************************************************************)
(* Sequence helpers                                                        *)
(***************************************************************************)

\* The least element of a set of indexes; 0 when it is empty.
Least(S) == IF S = {} THEN 0 ELSE CHOOSE i \in S : \A j \in S : i <= j

\* Smallest index i in from..Len(s) with s[i] in T; 0 when there is none.
FindFrom(s, from, T) == Least({i \in from..Len(s) : s[i] \in T})

Slice(s, i, j) == IF i > j THEN <<>> ELSE SubSeq(s, i, j)

RECURSIVE Flatten(_)
Flatten(ss) == IF ss = <<>> THEN <<>> ELSE Head(ss) \o Flatten(Tail(ss))

\* String.prototype.trim
RECURSIVE TrimLeft(_)
TrimLeft(s) ==
    IF s # <<>> /\ IsSpace(Head(s)) THEN TrimLeft(Tail(s)) ELSE s

RECURSIVE TrimRight(_)
TrimRight(s) ==
    IF s # <<>> /\ IsSpace(s[Len(s)]) THEN TrimRight(Slice(s, 1, Len(s) - 1)) ELSE s

Trim(s) == TrimRight(TrimLeft(s))

\* String.prototype.split(',') of a prop value.
RECURSIVE SplitComma(_)
SplitComma(s) ==
    With(FindFrom(s, 1, {","}), LAMBDA i :
        IF i = 0 THEN <<s>>
        ELSE <<Slice(s, 1, i - 1)>> \o SplitComma(Slice(s, i + 1, Len(s))))

(***************************************************************************)
(* String.prototype.replace(pattern, replacementString)                    *)
(***************************************************************************)

\* GetSubstitution: a replacement given as a string is not literal text,
\* `$$` stands for `$` and `$&` for the matched text.
RECURSIVE GetSubstitution(_, _)
GetSubstitution(matched, replacement) ==
    IF replacement = <<>> THEN <<>>
    ELSE (CASE Head(replacement) = "$$" -> <<"$">>
            [] Head(replacement) = "$&" -> <<matched>>
            [] OTHER -> <<Head(replacement)>>)
             \o GetSubstitution(matched, Tail(replacement))

\* text.replace(new RegExp(`{{${key}}}`, 'g'), value)
ReplacePlaceholder(text, key, value) ==
    Flatten([i \in 1..Len(text) |->
                IF text[i] = Placeholder(key)
                THEN GetSubstitution(Placeholder(key), value)
                ELSE <<text[i]>>])

(***************************************************************************)
(* Props: an object whose own keys keep insertion order, as a sequence of  *)
(* <<key, value>> pairs with distinct keys.                                *)
(***************************************************************************)

PropsHas(props, key) == \E i \in 1..Len(props) : props[i][1] = key

PropsGet(props, key) ==
    props[CHOOSE i \in 1..Len(props) : props[i][1] = key][2]

\* props[key] = value
PropsSet(props, key, value) ==
    IF PropsHas(props, key)
    THEN [i \in 1..Len(props) |->
              IF props[i][1] = key THEN <<key, value>> ELSE props[i]]
    ELSE Append(props, <<key, value>>)

(***************************************************************************)
(* The host evaluator: what `new Function('return ' + text)()` makes of a  *)
(* condition.  Values are strings, booleans and undefined.  The grammar    *)
(* covers what conditions of templates are made of: string literals,       *)
(* identifiers, parentheses and the operators ==, && and ||.  Any other    *)
(* lexeme is a SyntaxError.                                                *)
(***************************************************************************)

StrVal(s) == [t |-> "str", s |-> s, b |-> FALSE]
BoolVal(b) == [t |-> "bool", s |-> <<>>, b |-> b]
UndefVal == [t |-> "undef", s |-> <<>>, b |-> FALSE]

\* ToBoolean
Truthy(v) ==
    CASE v.t = "str" -> v.s # <<>>
      [] v.t = "bool" -> v.b
      [] OTHER -> FALSE

\* The == of the host language on these values (a boolean compared with a
\* string is compared as a number: only the empty string equals false).
LooseEq(v, w) ==
    CASE v.t = "str" /\ w.t = "str" -> v.s = w.s
      [] v.t = "bool" /\ w.t = "bool" -> v.b = w.b
      [] v.t = "undef" /\ w.t = "undef" -> TRUE
      [] v.t = "str" /\ w.t = "bool" -> v.s = <<>> /\ ~w.b
      [] v.t = "bool" /\ w.t = "str" -> w.s = <<>> /\ ~v.b
      [] OTHER -> FALSE

BinaryOps == {"==", "&&", "||"}

\* || binds loosest, then &&, then ==.
Prec(op) == CASE op = "||" -> 1 [] op = "&&" -> 2 [] OTHER -> 3

\* Index of the quote closing the string literal opened just before `from`;
\* a backslash escapes the lexeme after it.  0: unterminated.
RECURSIVE ClosingQuote(_, _, _)
ClosingQuote(toks, from, q) ==
    IF from > Len(toks) THEN 0
    ELSE IF toks[from] = "\\" THEN ClosingQuote(toks, from + 2, q)
    ELSE IF toks[from] = q THEN from
    ELSE ClosingQuote(toks, from + 1, q)

\* The value of a string literal's body: escapes dropped.
RECURSIVE Unescape(_)
Unescape(toks) ==
    IF toks = <<>> THEN <<>>
    ELSE IF Head(toks) = "\\"
         THEN IF Len(toks) = 1 THEN <<>>
              ELSE <<toks[2]>> \o Unescape(Tail(Tail(toks)))
         ELSE <<Head(toks)>> \o Unescape(Tail(toks))

BadItem == [k |-> "bad", s |-> <<>>]

\* The tokens of an expression text: [k, s] with k one of "str" (s its
\* value), "id", "op", "(" , ")" and "bad" (no token of the grammar).
RECURSIVE Lex(_, _)
Lex(toks, i) ==
    IF i > Len(toks) THEN <<>>
    ELSE IF IsSpace(toks[i]) THEN Lex(toks, i + 1)
    ELSE IF toks[i] \in {"\"", "'"}
         THEN With(ClosingQuote(toks, i + 1, toks[i]), LAMBDA j :
                  IF j = 0 THEN <<BadItem>>
                  ELSE <<[k |-> "str", s |-> Unescape(Slice(toks, i + 1, j - 1))]>>
                           \o Lex(toks, j + 1))
    ELSE <<CASE toks[i] \in BinaryOps -> [k |-> "op", s |-> <<toks[i]>>]
             [] toks[i] \in {"(", ")"} -> [k |-> toks[i], s |-> <<>>]
             [] toks[i] \in Words -> [k |-> "id", s |-> <<toks[i]>>]
             [] OTHER -> BadItem>> \o Lex(toks, i + 1)

NoParse == [ok |-> FALSE, pos |-> 0, ast |-> [k |-> "none"]]
Parsed(pos, ast) == [ok |-> TRUE, pos |-> pos, ast |-> ast]

\* Precedence climbing; every operator associates to the left.
RECURSIVE ParseExpr(_, _, _)
RECURSIVE ParseRest(_, _, _, _)
RECURSIVE ParsePrimary(_, _)

ParsePrimary(items, pos) ==
    IF pos > Len(items) THEN NoParse
    ELSE CASE items[pos].k = "str" ->
                  Parsed(pos + 1, [k |-> "lit", v |-> StrVal(items[pos].s)])
           [] items[pos].k = "id" ->
                  Parsed(pos + 1, [k |-> "id", n |-> items[pos].s[1]])
           [] items[pos].k = "(" ->
                  With(ParseExpr(items, pos + 1, 1), LAMBDA e :
                      IF e.ok /\ e.pos <= Len(items) /\ items[e.pos].k = ")"
                      THEN Parsed(e.pos + 1, e.ast)
                      ELSE NoParse)
           [] OTHER -> NoParse

ParseExpr(items, pos, minPrec) ==
    With(ParsePrimary(items, pos), LAMBDA l :
        IF l.ok THEN ParseRest(items, l.pos, minPrec, l.ast) ELSE NoParse)

ParseRest(items, pos, minPrec, left) ==
    IF pos <= Len(items) /\ items[pos].k = "op" /\ Prec(items[pos].s[1]) >= minPrec
    THEN With(ParseExpr(items, pos + 1, Prec(items[pos].s[1]) + 1), LAMBDA r :
             IF r.ok
             THEN ParseRest(items, r.pos, minPrec,
                            [k |-> "bin", op |-> items[pos].s[1], l |-> left, r |-> r.ast])
             ELSE NoParse)
    ELSE Parsed(pos, left)

Value(v) == [err |-> FALSE, v |-> v]
ReferenceError == [err |-> TRUE, v |-> UndefVal]

\* Evaluation: [err, v]; err is a ReferenceError (an identifier that names
\* nothing).  || and && evaluate their right operand only when needed.
RECURSIVE EvalAst(_)
EvalAst(ast) ==
    CASE ast.k = "lit" -> Value(ast.v)
      [] ast.k = "id" ->
            (CASE ast.n = "true" -> Value(BoolVal(TRUE))
               [] ast.n = "false" -> Value(BoolVal(FALSE))
               [] ast.n = "undefined" -> Value(UndefVal)
               [] OTHER -> ReferenceError)
      [] OTHER ->
            With(EvalAst(ast.l), LAMBDA l :
                IF l.err \/ (ast.op = "||" /\ Truthy(l.v)) \/ (ast.op = "&&" /\ ~Truthy(l.v))
                THEN l
                ELSE With(EvalAst(ast.r), LAMBDA r :
                         IF r.err \/ ast.op # "==" THEN r
                         ELSE Value(BoolVal(LooseEq(l.v, r.v)))))

\* try { return new Function('return ' + text)() } catch { return false }
\* as a boolean: the truthiness of what is returned.
EvalReturn(text) ==
    With(Lex(text, 1), LAMBDA items :
        items # <<>> /\
        With(ParseExpr(items, 1, 1), LAMBDA p :
            p.ok /\ p.pos = Len(items) + 1 /\
            With(EvalAst(p.ast), LAMBDA e : ~e.err /\ Truthy(e.v))))

(***************************************************************************)
(* parseConditionals                                                       *)
(*                                                                         *)
(* Directive markers are lexemes: "{%if(" is `{% if (`, ")%}" is `) %}`,   *)
(* "{%elif(" is `{% elif (`, "{%else%}" and "{%endif%}".  "(" and ")" are  *)
(* parentheses inside a condition.                                         *)
(***************************************************************************)

Pieces(bad, pieces) == [bad |-> bad, pieces |-> pieces]

\* The source text `'${condition}'` read as the host language reads it: the
\* bodies of the string literals it holds and the code between them, or
\* bad when the last literal is not closed by the quote the source adds
\* after the condition.  The text starts inside the first literal.
RECURSIVE QuotedPieces(_, _, _, _)
QuotedPieces(cond, i, inLit, cur) ==
    IF i > Len(cond)
    THEN Pieces(~inLit, IF inLit THEN <<cur>> ELSE <<>>)
    ELSE IF inLit /\ cond[i] = "\\"
         THEN IF i = Len(cond) THEN Pieces(TRUE, <<>>)
              ELSE QuotedPieces(cond, i + 2, TRUE, cur \o <<cond[i + 1]>>)
    ELSE IF cond[i] = "'"
         THEN With(QuotedPieces(cond, i + 1, ~inLit, <<>>), LAMBDA rest :
                  Pieces(rest.bad, <<cur>> \o rest.pieces))
    ELSE QuotedPieces(cond, i + 1, inLit, cur \o <<cond[i]>>)

\* .replace(/\b(\w+)\b/g, match => props.has(match) ? `"${props.get(match)}"`
\* : match): every word that names a prop is replaced by the prop's value
\* between double quotes.
SubstituteWords(text, props) ==
    Flatten([i \in 1..Len(text) |->
                IF text[i] \in Words /\ PropsHas(props, text[i])
                THEN <<Q>> \o PropsGet(props, text[i]) \o <<Q>>
                ELSE <<text[i]>>])

\* l op r in the host language.
ApplyOp(op, l, r) ==
    CASE op = "==" -> BoolVal(LooseEq(l, r))
      [] op = "&&" -> IF Truthy(l) THEN r ELSE l
      [] OTHER -> IF Truthy(l) THEN l ELSE r

Reduced(vals, ops) == [vals |-> vals, ops |-> ops]

\* vals[1] ops[1] vals[2] ... with every `op` applied, left to right.
RECURSIVE ReduceOp(_, _)
ReduceOp(vo, op) ==
    IF vo.ops = <<>> THEN vo
    ELSE IF Head(vo.ops) = op
         THEN ReduceOp(Reduced(<<ApplyOp(op, vo.vals[1], vo.vals[2])>> \o Tail(Tail(vo.vals)),
                               Tail(vo.ops)), op)
         ELSE With(ReduceOp(Reduced(Tail(vo.vals), Tail(vo.ops)), op), LAMBDA rest :
                  Reduced(<<Head(vo.vals)>> \o rest.vals, <<Head(vo.ops)>> \o rest.ops))

\* The value of evaluableCondition, the pieces being well formed: the
\* literals (the last one after .replace) combined by the operators that
\* stand between them.
EvaluableCondition(pieces, props) ==
    With(Len(pieces), LAMBDA n :
        ReduceOp(ReduceOp(ReduceOp(
            Reduced([i \in 1..((n + 1) \div 2) |->
                        IF 2 * i - 1 = n
                        THEN StrVal(SubstituteWords(pieces[2 * i - 1], props))
                        ELSE StrVal(pieces[2 * i - 1])],
                    [i \in 1..((n - 1) \div 2) |-> Trim(pieces[2 * i])[1]]),
            "=="), "&&"), "||").vals[1])

\* What stands between two literals is one binary operator.
GlueOK(pieces) ==
    \A i \in 1..((Len(pieces) - 1) \div 2) :
        With(Trim(pieces[2 * i]), LAMBDA g : Len(g) = 1 /\ g[1] \in BinaryOps)

\* generateEvaluateCondition(condition)(props): "throw" when the generated
\* source does not parse (new Function raises a SyntaxError outside the
\* try), else "true" or "false".
EvaluateCondition(condition, props) ==
    With(QuotedPieces(condition, 1, TRUE, <<>>), LAMBDA q :
        IF q.bad \/ ~GlueOK(q.pieces) THEN "throw"
        ELSE With(EvaluableCondition(q.pieces, props), LAMBDA v :
                 IF (CASE v.t = "str" -> EvalReturn(v.s)
                       [] v.t = "bool" -> v.b
                       [] OTHER -> FALSE)
                 THEN "true" ELSE "false"))

Split(sections, elifs) == [sections |-> sections, elifs |-> elifs]

\* The pieces of block.split(/{%\s*(?:elif|else)\s*(?:\(.*?\))?\s*%}/) and
\* the texts matched by /{%\s*elif\s*\((.*?)\)\s*%}/g, in order.
RECURSIVE SplitBlock(_, _, _)
SplitBlock(block, i, cur) ==
    IF i > Len(block) THEN Split(<<cur>>, <<>>)
    ELSE IF block[i] = "{%else%}"
         THEN With(SplitBlock(block, i + 1, <<>>), LAMBDA rest :
                  Split(<<cur>> \o rest.sections, rest.elifs))
    ELSE IF block[i] = "{%elif(" /\ FindFrom(block, i + 1, {")%}"}) # 0
         THEN With(FindFrom(block, i + 1, {")%}"}), LAMBDA j :
              With(SplitBlock(block, j + 1, <<>>), LAMBDA rest :
                  Split(<<cur>> \o rest.sections,
                        <<Slice(block, i, j)>> \o rest.elifs)))
    ELSE SplitBlock(block, i + 1, cur \o <<block[i]>>)

\* c.match(/\((.*?)\)/)[1] of an elif directive c: what lies between its
\* first opening parenthesis and the first closing parenthesis after it.
ElifCondition(c) ==
    Slice(c, 2, FindFrom(c, 2, {")", ")%}"}) - 1)

Text(text) == [threw |-> FALSE, text |-> text]
Threw == [threw |-> TRUE, text |-> <<>>]

\* The for loop of the callback: the section of the first condition that
\* evaluates truthy, else the section after the last directive if any.
RECURSIVE FirstTruthy(_, _, _, _)
FirstTruthy(conditions, sections, props, i) ==
    IF i > Len(conditions)
    THEN Text(IF Len(sections) > Len(conditions)
              THEN Trim(sections[Len(sections)]) ELSE <<>>)
    ELSE With(EvaluateCondition(conditions[i], props), LAMBDA r :
             IF r = "throw" THEN Threw
             ELSE IF r = "true" THEN Text(Trim(sections[i]))
             ELSE FirstTruthy(conditions, sections, props, i + 1))

\* The callback of content.replace(CONDITIONAL_REGEX, ...).
ConditionalBlock(condition, block, props) ==
    With(SplitBlock(block, 1, <<>>), LAMBDA sp :
        FirstTruthy(<<condition>> \o [i \in 1..Len(sp.elifs) |-> ElifCondition(sp.elifs[i])],
                    sp.sections, props, 1))

\* r followed by rest, a throw in either being a throw.
Then(r, rest) ==
    IF r.threw \/ rest.threw THEN Threw ELSE Text(r.text \o rest.text)

\* Index of the "{%endif%}" that ends the match of CONDITIONAL_REGEX
\* starting at lexeme i ("{%if(", the shortest condition that ends at a
\* ")%}", the shortest block that ends at an "{%endif%}"); 0: no match.
EndIf(content, i) ==
    IF content[i] # "{%if(" THEN 0
    ELSE With(FindFrom(content, i + 1, {")%}"}), LAMBDA j :
             IF j = 0 THEN 0 ELSE FindFrom(content, j + 1, {"{%endif%}"}))

\* The match of CONDITIONAL_REGEX that starts at lexeme i and ends at k,
\* handed to the callback.
ConditionalAt(content, i, k, props) ==
    With(FindFrom(content, i + 1, {")%}"}), LAMBDA j :
        ConditionalBlock(Slice(content, i + 1, j - 1), Slice(content, j + 1, k - 1), props))

\* content.replace(CONDITIONAL_REGEX, callback) from lexeme from on: the
\* text up to the next match, what the callback gives for it, and so on.
RECURSIVE ConditionalsFrom(_, _, _)
ConditionalsFrom(content, from, props) ==
    With(Least({i \in from..Len(content) : EndIf(content, i) # 0}), LAMBDA i :
        IF i = 0 THEN Text(Slice(content, from, Len(content)))
        ELSE Then(Text(Slice(content, from, i - 1)),
                  Then(ConditionalAt(content, i, EndIf(content, i), props),
                       ConditionalsFrom(content, EndIf(content, i) + 1, props))))

parseConditionals(content, props) == ConditionalsFrom(content, 1, props)

(***************************************************************************)
(* parseLoops                                                              *)
(***************************************************************************)

\* The lexemes that are the head of a loop: \w+ for the item and the list.
ForToks == {ForTok(item, list) : item \in Words, list \in Words}
IsForTok(tok) == tok \in ForToks
ForItem(tok) == CHOOSE item \in Words : \E list \in Words : tok = ForTok(item, list)
ForList(tok) == CHOOSE list \in Words : \E item \in Words : tok = ForTok(item, list)

\* A loop that copies its body without substituting the element (the
\* variant C17_TagsAfterLoops is checked against).
LoopBodyVerbatim(block, item, items) == Flatten([n \in 1..Len(items) |-> block])

\* items.map(val => block.replace(new RegExp(`{{${item}}}`, 'g'), val)).join('')
LoopBody(block, item, items) ==
    Flatten([n \in 1..Len(items) |-> ReplacePlaceholder(block, item, items[n])])

\* The callback of content.replace(FOR_REGEX, ...): props.get(list) is
\* undefined when the list is no prop, and undefined.split raises a
\* TypeError.
LoopBlock(item, list, block, props) ==
    IF ~PropsHas(props, list) THEN Threw
    ELSE Text(LoopBody(block, item, SplitComma(PropsGet(props, list))))

\* Index of the "{% endfor %}" that ends the match of FOR_REGEX starting
\* at lexeme i; 0: no match.
EndFor(content, i) ==
    IF IsForTok(content[i]) THEN FindFrom(content, i + 1, {"{% endfor %}"}) ELSE 0

\* content.replace(FOR_REGEX, callback) from lexeme from on.
RECURSIVE LoopsFrom(_, _, _)
LoopsFrom(content, from, props) ==
    With(Least({i \in from..Len(content) : EndFor(content, i) # 0}), LAMBDA i :
        IF i = 0 THEN Text(Slice(content, from, Len(content)))
        ELSE Then(Text(Slice(content, from, i - 1)),
                  Then(LoopBlock(ForItem(content[i]), ForList(content[i]),
                                 Slice(content, i + 1, EndFor(content, i) - 1), props),
                       LoopsFrom(content, EndFor(content, i) + 1, props))))

parseLoops(content, props) == LoopsFrom(content, 1, props)

(***************************************************************************)
(* parseComponentTags and renderComponent                                  *)
(*                                                                         *)
(* The parser's maps travel as st = [cache, failed, log]: templateCache,   *)
(* failedComponents, and a history of the callbacks run (one entry per     *)
(* match of COMPONENT_REGEX, appended when its callback returns or         *)
(* throws), which is no state of the program.                              *)
(***************************************************************************)

\* Calls of renderComponent the host's stack holds; one more raises a
\* RangeError.
MaxStack == 4

VOID_TAGS ==
    {"area", "base", "br", "col", "embed", "hr", "img", "input", "link",
     "menuitem", "meta", "param", "source", "track", "wbr", "path"}

StartMarker(name) == <<"\n", "<!--", " Component components/" \o name \o " ", "-->", "\n">>
EndMarker(name) == <<"\n", "<!--", " End component components/" \o name \o " ", "-->", "\n">>

\* `<!--COMMENT_PLACEHOLDER_${n}-->` is the lexemes "<!--", PH(n), "-->".
PH(n) == "COMMENT_PLACEHOLDER_" \o ToString(n)

\* Map.prototype.set
MapSet(m, key, value) ==
    [k \in DOMAIN m \cup {key} |-> IF k = key THEN value ELSE m[k]]

Extracted(text, comments) == [text |-> text, comments |-> comments]

\* A scanner that extracts no comment (the variant C8_CommentsProtected is
\* checked against).
ExtractNoComments(content, i, n) == Extracted(content, <<>>)

\* content.replace(COMMENT_REGEX, ...): every `<!--` up to the first `-->`
\* after it is pushed on comments and replaced by its placeholder.
RECURSIVE ExtractComments(_, _, _)
ExtractComments(content, from, n) ==
    With(Least({i \in from..Len(content) :
                   content[i] = "<!--" /\ FindFrom(content, i + 1, {"-->"}) # 0}), LAMBDA i :
        IF i = 0 THEN Extracted(Slice(content, from, Len(content)), <<>>)
        ELSE With(FindFrom(content, i + 1, {"-->"}), LAMBDA j :
             With(ExtractComments(content, j + 1, n + 1), LAMBDA rest :
                 Extracted(Slice(content, from, i - 1) \o <<"<!--", PH(n), "-->">> \o rest.text,
                           <<Slice(content, i, j)>> \o rest.comments))))

\* The n of PH(n) = tok, -1 when tok is no placeholder name.
PlaceholderIndex(tok, max) ==
    IF \E n \in 0..max : tok = PH(n) THEN CHOOSE n \in 0..max : tok = PH(n) ELSE -1

\* A scanner that leaves its placeholders in the text (the variant
\* C12_CopyThrough is checked against).
RestoreNothing(content, from, comments) == content

\* content.replace(/<!--COMMENT_PLACEHOLDER_(\d+)-->/g, (_, index) =>
\* comments[index]); an index past the end gives undefined, which replace
\* writes as the text "undefined".
RECURSIVE RestoreComments(_, _, _)
RestoreComments(content, from, comments) ==
    With(Least({i \in from..(Len(content) - 2) :
                   /\ content[i] = "<!--"
                   /\ content[i + 2] = "-->"
                   /\ PlaceholderIndex(content[i + 1], Len(content)) >= 0}), LAMBDA i :
        IF i = 0 THEN Slice(content, from, Len(content))
        ELSE With(PlaceholderIndex(content[i + 1], Len(content)), LAMBDA n :
                 Slice(content, from, i - 1)
                     \o (IF n < Len(comments) THEN comments[n + 1] ELSE <<"undefined">>)
                     \o RestoreComments(content, i + 3, comments)))

\* The end of the run of word lexemes that starts at i (i - 1 when none).
RECURSIVE WordRunEnd(_, _)
WordRunEnd(text, i) ==
    IF i <= Len(text) /\ text[i] \in Words THEN WordRunEnd(text, i + 1) ELSE i - 1

RECURSIVE JoinWords(_)
JoinWords(ws) == IF ws = <<>> THEN "" ELSE Head(ws) \o JoinWords(Tail(ws))

\* Index of the "/>" that ends the match of COMPONENT_REGEX starting at
\* lexeme i ("<", a name, anything without '>', then "/>"); 0: no match.
TagEnd(text, i) ==
    IF text[i] # "<" \/ WordRunEnd(text, i + 1) = i THEN 0
    ELSE With(FindFrom(text, WordRunEnd(text, i + 1) + 1, GtLexemes), LAMBDA k :
             IF k # 0 /\ text[k] = "/>" THEN k ELSE 0)

Match(text, i, e, k) ==
    [first |-> i, last |-> k,
     componentTag |-> JoinWords(Slice(text, i + 1, e)),
     attributesStr |-> Slice(text, e + 1, k - 1)]

\* The matches of COMPONENT_REGEX = /<([a-zA-Z0-9_/]+)([^>]*)\/>/g from
\* lexeme i on, in order.
RECURSIVE ComponentMatches(_, _)
ComponentMatches(text, from) ==
    With(Least({i \in from..Len(text) : TagEnd(text, i) # 0}), LAMBDA i :
        IF i = 0 THEN <<>>
        ELSE <<Match(text, i, WordRunEnd(text, i + 1), TagEnd(text, i))>>
                 \o ComponentMatches(text, TagEnd(text, i) + 1))

\* Where `=` and the opening quote of an attribute whose name is lexeme i
\* stand: [\s]? allows one white space before each.
EqPos(str, i) == IF i + 1 <= Len(str) /\ IsSpace(str[i + 1]) THEN i + 2 ELSE i + 1
QuotePos(str, i) ==
    With(EqPos(str, i), LAMBDA eq :
        IF eq + 1 <= Len(str) /\ IsSpace(str[eq + 1]) THEN eq + 2 ELSE eq + 1)

\* Index of the quote that ends the match of ATTR_REGEX starting at lexeme
\* i; 0: no match.
AttrEnd(str, i) ==
    IF /\ str[i] \in Words
       /\ QuotePos(str, i) <= Len(str)
       /\ str[EqPos(str, i)] = "="
       /\ str[QuotePos(str, i)] = Q
    THEN FindFrom(str, QuotePos(str, i) + 1, {Q}) ELSE 0

\* The exec loop over ATTR_REGEX = /(\w+)[\s]?=[\s]?"([^"]*)"/g.
RECURSIVE ParseAttributes(_, _, _)
ParseAttributes(str, i, props) ==
    IF i > Len(str) THEN props
    ELSE With(AttrEnd(str, i), LAMBDA j :
             IF j # 0
             THEN ParseAttributes(str, j + 1,
                      PropsSet(props, str[i], Slice(str, QuotePos(str, i) + 1, j - 1)))
             ELSE ParseAttributes(str, i + 1, props))

\* The reduce over Object.entries(props): each `{{key}}` gives way to the
\* prop's value, one prop after the other.
RECURSIVE SubstituteProps(_, _, _)
SubstituteProps(template, props, i) ==
    IF i > Len(props) THEN template
    ELSE SubstituteProps(ReplacePlaceholder(template, props[i][1], props[i][2]), props, i + 1)

\* The template after the props, parseConditionals and parseLoops.
ProcessTemplate(template, props) ==
    With(parseConditionals(SubstituteProps(template, props, 1), props), LAMBDA t :
        IF t.threw THEN t ELSE parseLoops(t.text, props))

\* What a call of renderComponent gives: kind is "frag" (text is the
\* fragment), "null" or "throw"; a void tag's callback gives "void".
Res(kind, text, st) == [kind |-> kind, text |-> text, st |-> st]

\* What a scan gives.
Scan(threw, text, st) == [threw |-> threw, text |-> text, st |-> st]

\* A tally that records a failure without counting it (the variant
\* C3_MissingComponent is checked against).
TallyOnce(failed, key) == MapSet(failed, key, 1)

\* failedComponents.set(key, (failedComponents.get(key) || 0) + 1)
Tally(failed, key) ==
    MapSet(failed, key, (IF key \in DOMAIN failed THEN failed[key] ELSE 0) + 1)

\* templateCache.set(cacheKey, result); return result
Cached(cacheKey, result, st) ==
    Res("frag", result, [st EXCEPT !.cache = MapSet(st.cache, cacheKey, result)])

Logged(st, entry) == [st EXCEPT !.log = Append(st.log, entry)]

\* A cache keyed by the component name alone (the variant
\* C16_OrderIndependent is checked against).
NameOnlyKey(componentName, props) == <<componentName, <<>>>>

\* `${componentName}-${JSON.stringify(props)}`: the props in the order of
\* their first assignment.
CacheKey(componentName, props) == <<componentName, props>>

\* A host that ends the expansion at the stack limit without an error
\* (the variant C14_CyclesNeverReturn is checked against).
Truncated(st) == Res("null", <<>>, st)

\* The call that exceeds the stack: the host raises a RangeError.
RangeError(st) == Res("throw", <<>>, st)

RECURSIVE renderComponent(_, _, _, _, _, _)
RECURSIVE parseComponentTags(_, _, _, _, _)
RECURSIVE RunCallbacks(_, _, _, _, _, _, _, _)

\* renderComponent(componentName, props, from); depth counts the calls of
\* renderComponent on the stack.
renderComponent(components, componentName, props, from, st, depth) ==
    IF depth > MaxStack THEN RangeError(st)
    ELSE IF CacheKey(componentName, props) \in DOMAIN st.cache
    THEN Res("frag", st.cache[CacheKey(componentName, props)], st)
    ELSE IF componentName \notin DOMAIN components
    THEN Res("null", <<>>, [st EXCEPT !.failed = Tally(st.failed, <<componentName, from>>)])
    ELSE With(ProcessTemplate(components[componentName], props), LAMBDA t :
             IF t.threw THEN Res("throw", <<>>, st)
             ELSE With(parseComponentTags(components, t.text, from, st, depth), LAMBDA r :
                      IF r.threw THEN Res("throw", <<>>, r.st)
                      ELSE Cached(CacheKey(componentName, props),
                                  StartMarker(componentName) \o r.text \o EndMarker(componentName),
                                  r.st)))

\* A callback without the VOID_TAGS test (the variant C9_VoidTags is
\* checked against).
CallbackAll(components, mt, from, st, depth) ==
    renderComponent(components, mt.componentTag,
                    ParseAttributes(mt.attributesStr, 1, <<>>), from, st, depth + 1)

\* The callback of content.replace(COMPONENT_REGEX, ...) for match mt.
Callback(components, mt, from, st, depth) ==
    IF mt.componentTag \in VOID_TAGS THEN Res("void", <<>>, st)
    ELSE renderComponent(components, mt.componentTag,
                         ParseAttributes(mt.attributesStr, 1, <<>>), from, st, depth + 1)

Entry(text, mt, from, st, depth, kind) ==
    [tag |-> Slice(text, mt.first, mt.last), name |-> mt.componentTag, from |-> from,
     depth |-> depth, res |-> kind,
     cached |-> /\ mt.componentTag \notin VOID_TAGS
                /\ CacheKey(mt.componentTag, ParseAttributes(mt.attributesStr, 1, <<>>))
                       \in DOMAIN st.cache]

\* The callbacks for the matches ms[m..], called in order; pos is the
\* first lexeme not yet copied.  `... || match`: a null leaves the tag.
RunCallbacks(components, text, ms, m, pos, from, st, depth) ==
    IF m > Len(ms) THEN Scan(FALSE, Slice(text, pos, Len(text)), st)
    ELSE With(Callback(components, ms[m], from, st, depth), LAMBDA r :
         With(Logged(r.st, Entry(text, ms[m], from, st, depth, r.kind)), LAMBDA st2 :
             IF r.kind = "throw" THEN Scan(TRUE, <<>>, st2)
             ELSE With(RunCallbacks(components, text, ms, m + 1, ms[m].last + 1, from, st2, depth),
                       LAMBDA rest :
                      IF rest.threw THEN rest
                      ELSE Scan(FALSE,
                                Slice(text, pos, ms[m].first - 1)
                                    \o (IF r.kind = "frag" THEN r.text
                                        ELSE Slice(text, ms[m].first, ms[m].last))
                                    \o rest.text,
                                rest.st))))

\* parseComponentTags(content, from).
parseComponentTags(components, content, from, st, depth) ==
    With(ExtractComments(content, 1, 0), LAMBDA c :
    With(RunCallbacks(components, c.text, ComponentMatches(c.text, 1), 1, 1, from, st, depth),
         LAMBDA r :
        IF r.threw THEN r
        ELSE Scan(FALSE, RestoreComments(r.text, 1, c.comments), r.st)))

(***************************************************************************)
(* The file system                                                         *)
(*                                                                         *)
(* A file is [dir, base, ext]: the directories from the root down, the     *)
(* base name and the extension.  The source tree is fixed in shape; every  *)
(* directory lists its entries in readdir order.                           *)
(***************************************************************************)

File(dir, base, ext) == [dir |-> dir, base |-> base, ext |-> ext]

IndexHtml == File(<<>>, "index", ".html")
StyleCss == File(<<>>, "style", ".css")
PageHtml == File(<<"sub">>, "page", ".html")
LeafHtml == File(<<"sub", "deep">>, "leaf", ".html")

SrcFiles == {IndexHtml, StyleCss, PageHtml, LeafHtml}

\* fs.readdir(dir): the files and the subdirectories of dir, in order.
ReaddirFiles(dir) ==
    CASE dir = <<>> -> <<IndexHtml, StyleCss>>
      [] dir = <<"sub">> -> <<PageHtml>>
      [] dir = <<"sub", "deep">> -> <<LeafHtml>>
      [] OTHER -> <<>>

ReaddirDirs(dir) ==
    CASE dir = <<>> -> << <<"sub">> >>
      [] dir = <<"sub">> -> << <<"sub", "deep">> >>
      [] OTHER -> <<>>

\* options.depth ?? Infinity
Infinity == 1000

\* <name k="v" ... /> as lexemes; attrs is a sequence of <<key, value>>.
RECURSIVE AttrText(_)
AttrText(attrs) ==
    IF attrs = <<>> THEN <<>>
    ELSE <<" ", Head(attrs)[1], "=", Q>> \o Head(attrs)[2] \o <<Q>> \o AttrText(Tail(attrs))

Tag(name, attrs) == <<"<", name>> \o AttrText(attrs) \o <<"/>">>

(***************************************************************************)
(* The build: processDirectory, the components watcher, and the            *)
(* environment that edits templates.                                       *)
(*                                                                         *)
(* Activation 0 is the call of processDirectory made by the main program;  *)
(* activations 1..MaxWatchers are handlers of components-tree change       *)
(* events.  An activation advances from one await to the next in one step; *)
(* the reads of one loadComponents are taken together.                     *)
(***************************************************************************)

VARIABLES
    compDirExists,      \* disk: whether <cwd>/components exists
    compFiles,          \* disk: template file name -> template text
    srcExists,          \* disk: whether the source directory exists
    srcContent,         \* disk: source file -> text
    out,                \* disk: file -> text, under the output root
    opts,               \* this.depth, this.names, this.watch
    components,         \* this.components
    templateCache,      \* this.templateCache
    failedComponents,   \* this.failedComponents
    processing,         \* this.processing
    procs,              \* activation -> [pc, tasks, error, dropped]
    exited,             \* process.exit(1) was called
    edits,              \* number of template edits made by the environment
    hin,                \* input of the function under check (function specifications)
    hout                \* its result

vars ==
    <<compDirExists, compFiles, srcExists, srcContent, out, opts, components,
      templateCache, failedComponents, processing, procs, exited, edits, hin, hout>>

diskVars == <<compDirExists, compFiles, srcExists, srcContent>>
harnessVars == <<hin, hout>>
parserVars == <<components, templateCache, failedComponents, processing>>
buildVars == <<diskVars, out, opts, parserVars, procs, exited, edits>>

\* Handlers of components-tree change events that may be in flight at once.
MaxWatchers == 1
\* Template edits the environment makes.
MaxEdits == 2
\* Values of os.cpus().length tried.
MaxCPUs == 2

Main == 0
Activations == 0..MaxWatchers

EmptyMap == [k \in {} |-> 0]

\* An activation: where it stands, its per-document tasks (file -> [pc,
\* processed]), the kind of exception that left it, and whether its last
\* call of processDirectory returned at the guard.
Proc(pc) == [pc |-> pc, tasks |-> EmptyMap, error |-> "none", dropped |-> FALSE]

\* Where an activation is once processDirectory (or its handler) returned.
Returned(p) == IF p = Main THEN "end" ELSE "idle"

\* Inside processDirectory, past the guard, not yet returned or thrown.
Active(pr) == pr.pc \in {"load", "copy", "find", "files"}

\* A guard that never sees a build in flight (the variant C2_OneBuild is
\* checked against).
NeverInFlight == FALSE

\* if (this.processing) return;
InFlight == processing

\* A start of processDirectory that keeps the record (the variant
\* C13_RecordPerRun is checked against).
ClearNothing(m) == m

\* this.failedComponents.clear()
Clear(m) == EmptyMap

\* Math.ceil(a / b) for a >= 0, b > 0
Ceil(a, b) == (a + b - 1) \div b

Range(s) == {s[i] : i \in 1..Len(s)}

\* copyDirectoryContents(sourceDir, targetDir, currentDepth): the files it copies.
RECURSIVE copyDirectoryContents(_, _, _)
RECURSIVE CopySubdirs(_, _, _, _)
copyDirectoryContents(dir, currentDepth, depth) ==
    IF currentDepth >= depth THEN {}
    ELSE Range(ReaddirFiles(dir)) \cup CopySubdirs(ReaddirDirs(dir), 1, currentDepth, depth)
CopySubdirs(dirs, i, currentDepth, depth) ==
    IF i > Len(dirs) THEN {}
    ELSE copyDirectoryContents(dirs[i], currentDepth + 1, depth)
             \cup CopySubdirs(dirs, i + 1, currentDepth, depth)

\* findHtmlFiles(dir, currentDepth): the documents to process, in order.
RECURSIVE findHtmlFiles(_, _, _, _)
RECURSIVE FindSubdirs(_, _, _, _, _)
RECURSIVE FilterHtml(_, _, _)
FilterHtml(files, i, names) ==
    IF i > Len(files) THEN <<>>
    ELSE (IF files[i].ext = ".html" /\ (~names.given \/ files[i].base \in names.set)
          THEN <<files[i]>> ELSE <<>>) \o FilterHtml(files, i + 1, names)
findHtmlFiles(dir, currentDepth, depth, names) ==
    IF currentDepth >= depth THEN <<>>
    ELSE FilterHtml(ReaddirFiles(dir), 1, names)
             \o FindSubdirs(ReaddirDirs(dir), 1, currentDepth, depth, names)
FindSubdirs(dirs, i, currentDepth, depth, names) ==
    IF i > Len(dirs) THEN <<>>
    ELSE findHtmlFiles(dirs[i], currentDepth + 1, depth, names)
             \o FindSubdirs(dirs, i + 1, currentDepth, depth, names)

\* The chunks of processDirectory: htmlFiles cut into slices of chunkSize.
Chunks(htmlFiles, numCPUs) ==
    With(Ceil(Len(htmlFiles), numCPUs), LAMBDA chunkSize :
        [i \in 1..Ceil(Len(htmlFiles), chunkSize) |->
            Slice(htmlFiles, (i - 1) * chunkSize + 1,
                  IF i * chunkSize < Len(htmlFiles) THEN i * chunkSize ELSE Len(htmlFiles))])

(***************************************************************************)
(* Initial disk contents                                                   *)
(***************************************************************************)

\* components/A.html nests B; components/L.html loops over its prop
\* `items`.
TemplateA == Tag("B", <<>>)
TemplateL == <<ForTok("x", "items"), Placeholder("x"), "{% endfor %}">>

\* What the environment saves: another text for components/B.html, or a
\* components/M.html that loops over its prop `items`.
Saves == {<<"B", <<"t">>>>, <<"B", <<"w">>>>, <<"M", TemplateL>>}

InitialCompFiles ==
    [n \in {"A", "B", "L"} |->
        CASE n = "A" -> TemplateA
          [] n = "B" -> <<"t">>
          [] OTHER -> TemplateL]

\* Source trees: the same files with different texts.  In the second,
\* sub/page.html uses L without binding `items`.
DocsPlain ==
    [f \in SrcFiles |->
        CASE f = IndexHtml -> Tag("A", <<>>)
          [] f = PageHtml -> Tag("B", <<>>) \o Tag("M", <<>>)
          [] f = LeafHtml -> Tag("A", <<>>) \o <<"t">>
          [] OTHER -> <<"w">>]

DocsLoops ==
    [f \in SrcFiles |->
        CASE f = IndexHtml -> Tag("L", << <<"items", <<"a", ",", "b">> >> >>)
          [] f = PageHtml -> Tag("L", <<>>)
          [] f = LeafHtml -> <<"t">>
          [] OTHER -> <<"w">>]

DocSets == {DocsPlain, DocsLoops}

Depths == {1, 2, Infinity}

NamesOptions ==
    { [given |-> FALSE, set |-> {}],
      [given |-> TRUE, set |-> {"index", "page"}],
      [given |-> TRUE, set |-> {"index"}],
      [given |-> TRUE, set |-> {"none"}] }

\* The parser as its constructor leaves it, on a disk the run may find.
Constructed ==
    /\ compDirExists \in BOOLEAN
    /\ srcExists \in BOOLEAN
    /\ compDirExists \/ srcExists
    /\ compFiles = InitialCompFiles
    /\ srcContent \in DocSets
    /\ out = EmptyMap
    /\ opts \in [depth : Depths, names : NamesOptions, watch : BOOLEAN]
    \* fs.watch throws in the constructor when a watched directory is missing
    /\ opts.watch => compDirExists /\ srcExists
    /\ components = EmptyMap
    /\ templateCache = EmptyMap
    /\ failedComponents = EmptyMap
    /\ processing = FALSE
    /\ procs = [p \in Activations |-> IF p = Main THEN Proc("call") ELSE Proc("idle")]
    /\ exited = FALSE
    /\ edits = 0

\* No function call under check.
NotRun == [run |-> FALSE]

\* The result of the function call under check.
Ran(res) == [run |-> TRUE, res |-> res]

Init ==
    /\ Constructed
    /\ hin = NotRun
    /\ hout = NotRun

(***************************************************************************)
(* Actions                                                                 *)
(***************************************************************************)

\* An exception leaves processDirectory.  The main program catches it and
\* calls process.exit(1); the watcher's handler catches it and logs.
\* this.processing is not touched.
Thrown(p, pr, kind) ==
    /\ procs' = [procs EXCEPT ![p] = [pr EXCEPT !.pc = "failed", !.error = kind]]
    /\ exited' = (p = Main)

\* processDirectory(), up to its first await.
ProcessDirectory(p) ==
    /\ ~exited
    /\ procs[p].pc = "call"
    /\ IF InFlight
       THEN /\ procs' = [procs EXCEPT ![p] = [Proc(Returned(p)) EXCEPT !.dropped = TRUE]]
            /\ UNCHANGED <<processing, failedComponents>>
       ELSE /\ processing' = TRUE
            /\ failedComponents' = Clear(failedComponents)
            /\ procs' = [procs EXCEPT ![p] = Proc("load")]
    /\ UNCHANGED <<diskVars, out, opts, components, templateCache, exited, edits, harnessVars>>

\* relativePath.replace(/\\/g, '/').replace(/\.html$/, '') for the file
\* base.html in directory dir of the components root.
RECURSIVE ComponentName(_, _)
ComponentName(dir, base) ==
    IF dir = <<>> THEN base ELSE Head(dir) \o "/" \o ComponentName(Tail(dir), base)

\* The template files of a tree (file -> text): those named *.html.
TemplateFiles(tree) == {f \in DOMAIN tree : f.ext = ".html"}

\* _readComponentsRecursive over a tree, from store comps:
\* components.set(componentName, template) for every template file.
ReadComponents(comps, tree) ==
    [n \in DOMAIN comps \cup {ComponentName(f.dir, f.base) : f \in TemplateFiles(tree)} |->
        IF \E f \in TemplateFiles(tree) : ComponentName(f.dir, f.base) = n
        THEN tree[CHOOSE f \in TemplateFiles(tree) : ComponentName(f.dir, f.base) = n]
        ELSE comps[n]]

\* The components root on disk: components/<name>.html for every name.
ComponentsTree ==
    [f \in {File(<<>>, n, ".html") : n \in DOMAIN compFiles} |-> compFiles[f.base]]

\* The store after loadComponents.
Loaded == ReadComponents(components, ComponentsTree)

\* await this.loadComponents(), in processDirectory ("load") and in the
\* watcher's handler ("wload").
LoadComponents(p) ==
    /\ ~exited
    /\ procs[p].pc \in {"load", "wload"}
    /\ IF compDirExists
       THEN /\ components' = Loaded
            /\ procs' = [procs EXCEPT ![p].pc = IF @ = "load" THEN "copy" ELSE "call"]
            /\ UNCHANGED exited
       ELSE /\ Thrown(p, procs[p], "setup")
            /\ UNCHANGED components
    /\ UNCHANGED <<diskVars, out, opts, templateCache, failedComponents, processing,
                   edits, harnessVars>>

\* await this.copyDirectoryContents(inputDir, this.outputDir)
CopyDirectory(p) ==
    /\ ~exited
    /\ procs[p].pc = "copy"
    /\ IF srcExists
       THEN /\ out' = [f \in DOMAIN out \cup copyDirectoryContents(<<>>, 0, opts.depth) |->
                          IF f \in copyDirectoryContents(<<>>, 0, opts.depth)
                          THEN srcContent[f] ELSE out[f]]
            /\ procs' = [procs EXCEPT ![p].pc = "find"]
            /\ UNCHANGED exited
       ELSE /\ Thrown(p, procs[p], "setup")
            /\ UNCHANGED out
    /\ UNCHANGED <<diskVars, opts, parserVars, edits, harnessVars>>

\* One task per document, each at its readFile.
Tasks(htmlFiles) == [f \in Range(htmlFiles) |-> [pc |-> "read", processed |-> <<>>]]

\* await this.findHtmlFiles(inputDir), the chunks, and the start of the
\* tasks of every chunk.  Without documents chunkSize is 0 and
\* Array(Math.ceil(0 / 0)) is Array(NaN): a RangeError.
FindHtmlFiles(p) ==
    /\ ~exited
    /\ procs[p].pc = "find"
    /\ \E numCPUs \in 1..MaxCPUs :
         With(findHtmlFiles(<<>>, 0, opts.depth, opts.names), LAMBDA htmlFiles :
             IF Len(htmlFiles) = 0
             THEN Thrown(p, procs[p], "chunks")
             ELSE /\ procs' = [procs EXCEPT ![p] =
                         [@ EXCEPT !.pc = "files",
                                   !.tasks = Tasks(Flatten(Chunks(htmlFiles, numCPUs)))]]
                  /\ UNCHANGED exited)
    /\ UNCHANGED <<diskVars, out, opts, parserVars, edits, harnessVars>>

\* The parser's maps as the constructor leaves them.
EmptySt == [cache |-> EmptyMap, failed |-> EmptyMap, log |-> <<>>]

\* The parser's maps as parseComponentTags finds them.
ParserState == [cache |-> templateCache, failed |-> failedComponents, log |-> <<>>]

\* The task of f after parseComponentTags gave r.
TaskAfter(r) == [pc |-> IF r.threw THEN "threw" ELSE "write", processed |-> r.text]

\* A document's task: readFile resolves, parseComponentTags runs, and the
\* task awaits mkdir.  An exception rejects the task's promise and with it
\* processDirectory's, if that is still pending.
ProcessFile(p, f) ==
    /\ ~exited
    /\ f \in DOMAIN procs[p].tasks
    /\ procs[p].tasks[f].pc = "read"
    /\ With(parseComponentTags(components, srcContent[f], f, ParserState, 0), LAMBDA r :
           /\ templateCache' = r.st.cache
           /\ failedComponents' = r.st.failed
           /\ IF r.threw /\ procs[p].pc = "files"
              THEN Thrown(p, [procs[p] EXCEPT !.tasks[f] = TaskAfter(r)], "expand")
              ELSE /\ procs' = [procs EXCEPT ![p].tasks[f] = TaskAfter(r)]
                   /\ UNCHANGED exited)
    /\ UNCHANGED <<diskVars, out, opts, components, processing, edits, harnessVars>>

\* mkdir and writeFile of a document's task.
WriteFile(p, f) ==
    /\ ~exited
    /\ f \in DOMAIN procs[p].tasks
    /\ procs[p].tasks[f].pc = "write"
    /\ out' = MapSet(out, f, procs[p].tasks[f].processed)
    /\ procs' = [procs EXCEPT ![p].tasks[f].pc = "done"]
    /\ UNCHANGED <<diskVars, opts, parserVars, exited, edits, harnessVars>>

\* Every task is done: the summary is logged and the guard is cleared.
Complete(p) ==
    /\ ~exited
    /\ procs[p].pc = "files"
    /\ \A f \in DOMAIN procs[p].tasks : procs[p].tasks[f].pc = "done"
    /\ processing' = FALSE
    /\ procs' = [procs EXCEPT ![p].pc = Returned(p)]
    /\ UNCHANGED <<diskVars, out, opts, components, templateCache, failedComponents,
                   exited, edits, harnessVars>>

\* The handler of a failed build has logged the error, or the handler of
\* a source-tree change has run updateSingleFile; once the tasks it left
\* behind have settled, the activation is free again.
HandlerEnds(p) ==
    /\ ~exited
    /\ p # Main
    /\ procs[p].pc \in {"failed", "update"}
    /\ \A f \in DOMAIN procs[p].tasks : procs[p].tasks[f].pc \in {"done", "threw"}
    /\ procs' = [procs EXCEPT ![p] = [Proc("idle") EXCEPT !.error = procs[p].error]]
    /\ UNCHANGED <<diskVars, out, opts, parserVars, exited, edits, harnessVars>>

\* The environment saves text t to components/n.html; fs.watch reports
\* the change and a handler starts with loadComponents().  Events are
\* delivered after the main program's call of processDirectory reached its
\* first await.
EditTemplate(w, n, t) ==
    /\ ~exited
    /\ opts.watch
    /\ edits < MaxEdits
    /\ procs[Main].pc # "call"
    /\ w \in Activations \ {Main}
    /\ procs[w].pc = "idle"
    /\ \A v \in 1..(w - 1) : procs[v].pc # "idle"
    /\ <<n, t>> \in Saves
    /\ n \in DOMAIN compFiles => compFiles[n] # t
    /\ edits' = edits + 1
    /\ compFiles' = MapSet(compFiles, n, t)
    /\ procs' = [procs EXCEPT ![w] = Proc("wload")]
    /\ UNCHANGED <<compDirExists, srcExists, srcContent, out, opts, parserVars,
                   exited, harnessVars>>

\* The source files the environment saves.
SavedSources == {PageHtml}

\* The environment saves source file f (its text as before); fs.watch
\* reports the change and the handler calls updateSingleFile(f): readFile,
\* parseComponentTags, mkdir and writeFile to the mirrored path, as one
\* task.  A handler that the 500 ms test of lastUpdatedTimes turns away
\* does nothing.
UpdateSingleFile(w, f) ==
    /\ ~exited
    /\ opts.watch
    /\ edits < MaxEdits
    /\ procs[Main].pc # "call"
    /\ w \in Activations \ {Main}
    /\ procs[w].pc = "idle"
    /\ \A v \in 1..(w - 1) : procs[v].pc # "idle"
    /\ edits' = edits + 1
    /\ procs' = [procs EXCEPT ![w] = [Proc("update") EXCEPT !.tasks = Tasks(<<f>>)]]
    /\ UNCHANGED <<diskVars, out, opts, parserVars, exited, harnessVars>>

Next ==
    \/ \E p \in Activations : ProcessDirectory(p)
    \/ \E p \in Activations : LoadComponents(p)
    \/ \E p \in Activations : CopyDirectory(p)
    \/ \E p \in Activations : FindHtmlFiles(p)
    \/ \E p \in Activations : \E f \in SrcFiles : ProcessFile(p, f)
    \/ \E p \in Activations : \E f \in SrcFiles : WriteFile(p, f)
    \/ \E p \in Activations : Complete(p)
    \/ \E p \in Activations : HandlerEnds(p)
    \/ \E w \in Activations : \E s \in Saves : EditTemplate(w, s[1], s[2])
    \/ \E w \in Activations : \E f \in SavedSources : UpdateSingleFile(w, f)

Spec == Init /\ [][Next]_vars

(***************************************************************************)
(* Properties of the build (specification Spec)                            *)
(***************************************************************************)

\* What parseComponentTags gives for document f from the Component Store
\* as it is, nothing being cached.
Fresh(f) ==
    parseComponentTags(components, srcContent[f], f,
                       [cache |-> EmptyMap, failed |-> failedComponents, log |-> <<>>], 0)

\* The step in which the task of document f of activation p runs
\* parseComponentTags.
Processes(p, f) ==
    /\ f \in DOMAIN procs[p].tasks
    /\ procs[p].tasks[f].pc = "read"
    /\ f \in DOMAIN procs'[p].tasks
    /\ procs'[p].tasks[f].pc # "read"

\* C1: after the Component Store was reloaded with a changed template,
\* resolving a (component, props) pair resolved before the reload gives a
\* fragment derived from the new template, also for components that nest
\* the changed one: whenever a document is expanded, the text produced is
\* the text the store's present templates give (when they give one).
C1_NoStaleFragment ==
    [][\A p \in Activations : \A f \in SrcFiles :
          (Processes(p, f) /\ ~Fresh(f).threw) =>
              procs'[p].tasks[f].processed = Fresh(f).text]_vars

\* The activations whose build is active.
ActiveBuilds == {p \in Activations : Active(procs[p])}

\* The step in which activation p calls processDirectory while a build is
\* in flight.
CallsInFlight(p) ==
    /\ procs[p].pc = "call"
    /\ processing
    /\ procs'[p] # procs[p]

\* C2: at most one build is active at any time, and a processDirectory
\* call that arrives while a build is in flight returns at once: it loads
\* no component, copies and writes nothing, leaves the failed-resolution
\* record alone, and leaves nothing behind that would run it later (the
\* activation is back where a returned call leaves it, without tasks).
C2_OneBuild ==
    /\ [](Cardinality(ActiveBuilds) <= 1)
    /\ [][\A p \in Activations :
            CallsInFlight(p) =>
                /\ procs'[p].pc = Returned(p)
                /\ procs'[p].tasks = EmptyMap
                /\ \A q \in Activations \ {p} : procs'[q] = procs[q]
                /\ UNCHANGED <<diskVars, out, parserVars>>]_vars

\* A call was dropped while another activation's build is active.
C2_Witness ==
    \E p, q \in Activations : p # q /\ procs[p].dropped /\ Active(procs[q])

\* C4: no failure that arises while expanding a component tag of a
\* document leaves processDirectory.
C4_ExpansionFailuresContained ==
    \A p \in Activations : procs[p].error # "expand"

\* The documents the depth limit keeps from processing.
BelowDepthLimit == {f \in SrcFiles : Len(f.dir) >= opts.depth}

\* C10: once the build has completed, every file below the depth limit
\* is in the output tree with the text it has in the source tree.
C10_DeepFilesCopied ==
    procs[Main].pc = "end" =>
        \A f \in BelowDepthLimit : f \in DOMAIN out /\ out[f] = srcContent[f]

\* The matched documents: the .html files within the depth limit whose
\* base name passes the names filter.
MatchedDocuments ==
    {f \in SrcFiles : /\ f.ext = ".html"
                      /\ Len(f.dir) < opts.depth
                      /\ (opts.names.given => f.base \in opts.names.set)}

\* C11: once the build has completed (no template having been edited
\* meanwhile), every file of the source tree is in the output tree at the
\* same relative path: a matched document with its expanded text, every
\* other file with the text it has in the source tree.
C11_MirroredTree ==
    (procs[Main].pc = "end" /\ edits = 0) =>
        \A f \in SrcFiles :
            /\ f \in DOMAIN out
            /\ out[f] = IF f \in MatchedDocuments THEN Fresh(f).text ELSE srcContent[f]

\* The step in which activation p passes the guard of processDirectory.
Starts(p) == procs[p].pc = "call" /\ procs'[p].pc = "load"

\* Record `after` is record `before` with more failures tallied for tags
\* of document f that name components absent from the store.
TalliesAdded(before, after, f) ==
    /\ DOMAIN before \subseteq DOMAIN after
    /\ \A key \in DOMAIN after :
           \/ key \in DOMAIN before /\ after[key] = before[key]
           \/ /\ key[2] = f
              /\ key[1] \notin DOMAIN components
              /\ after[key] > (IF key \in DOMAIN before THEN before[key] ELSE 0)

\* C13: the failed-resolution record is empty when a processDirectory run
\* that is not dropped starts, and from then on it changes only by the
\* tally of a failed resolution made while a document is expanded; so the
\* record the summary at the end of the run reports holds tallies made
\* since the run started and no others.
C13_RecordPerRun ==
    [][/\ \A p \in Activations : Starts(p) => failedComponents' = EmptyMap
       /\ failedComponents' # failedComponents =>
              \/ \E p \in Activations : Starts(p)
              \/ \E p \in Activations : \E f \in SrcFiles :
                     /\ Processes(p, f)
                     /\ TalliesAdded(failedComponents, failedComponents', f)]_vars

\* A watcher's run has started with an empty record after the main run
\* had expanded sub/page.html, whose tag <M/> names no component.
C13_Witness ==
    /\ procs[Main].pc = "end"
    /\ PageHtml \in DOMAIN procs[Main].tasks
    /\ srcContent = DocsPlain
    /\ "M" \notin DOMAIN components
    /\ failedComponents = EmptyMap
    /\ \E w \in Activations \ {Main} : procs[w].pc = "load"

\* C16: in a build over the store as first loaded, whatever the order in
\* which the document tasks run, each document is expanded to what
\* parseComponentTags gives for it alone from an empty cache (or fails as
\* it does alone), and every cache entry is the fragment that resolving
\* its component with its props from an empty cache gives.
C16_OrderIndependent ==
    /\ [][edits = 0 =>
             \A p \in Activations : \A f \in SrcFiles :
                 Processes(p, f) =>
                     /\ (procs'[p].tasks[f].pc = "threw") = Fresh(f).threw
                     /\ procs'[p].tasks[f].processed = Fresh(f).text]_vars
    /\ [](edits = 0 =>
             \A key \in DOMAIN templateCache :
                 templateCache[key]
                     = renderComponent(components, key[1], key[2], IndexHtml, EmptySt, 1).text)

\* sub/deep/leaf.html is written and sub/page.html expanded while
\* index.html is still being read: the documents share A and B.
C16_Witness ==
    /\ edits = 0
    /\ srcContent = DocsPlain
    /\ procs[Main].pc = "files"
    /\ DOMAIN procs[Main].tasks = {IndexHtml, PageHtml, LeafHtml}
    /\ procs[Main].tasks[LeafHtml].pc = "done"
    /\ procs[Main].tasks[PageHtml].pc = "write"
    /\ procs[Main].tasks[IndexHtml].pc = "read"
    /\ {CacheKey("A", <<>>), CacheKey("B", <<>>)} \subseteq DOMAIN templateCache

\* The chunks cover the documents: every document is in exactly one
\* chunk, at one place.
Partitions(chunks, htmlFiles) ==
    \A f \in Range(htmlFiles) :
        Cardinality({<<i, j>> \in (DOMAIN chunks) \X (1..Len(htmlFiles)) :
                        j <= Len(chunks[i]) /\ chunks[i][j] = f}) = 1

\* C20: whatever the number of matched documents and of CPUs,
\* processDirectory does not fail on the chunks; the chunks are at most as
\* many as the CPUs and hold every matched document exactly once; every
\* matched document gets one task; and the build that has completed has
\* run every task to its end.
C20_Chunks ==
    /\ \A p \in Activations : procs[p].error # "chunks"
    /\ \A c \in 1..MaxCPUs :
           With(findHtmlFiles(<<>>, 0, opts.depth, opts.names), LAMBDA htmlFiles :
               Len(htmlFiles) > 0 =>
                   /\ Len(Chunks(htmlFiles, c)) <= c
                   /\ Partitions(Chunks(htmlFiles, c), htmlFiles))
    /\ \A p \in Activations :
           procs[p].pc = "files" => DOMAIN procs[p].tasks = MatchedDocuments
    /\ procs[Main].pc = "end" =>
           \A f \in MatchedDocuments :
               f \in DOMAIN procs[Main].tasks /\ procs[Main].tasks[f].pc = "done"

\* C21: when no build is active (every build that was started has
\* completed or has failed) the in-flight guard is clear, so that the
\* next call of processDirectory passes it.
C21_GuardCleared ==
    (~exited /\ ActiveBuilds = {}) => ~processing

\* The step in which the build of activation p does its initial load.
LoadsForBuild(p) == procs[p].pc = "load" /\ procs'[p].pc # "load"

\* C22: while a build is in flight the Component Store changes only in
\* the step in which that build does its own initial load.
C22_StoreStableInBuild ==
    [][(processing /\ components' # components) =>
           \E p \in Activations : LoadsForBuild(p)]_vars

\* The handler of a source-tree change in activation w has written its
\* file, the components tree is as it was at the start, the build has
\* completed and nothing else is in flight.
UpdateSettled(w) ==
    /\ compFiles = InitialCompFiles
    /\ procs[Main].pc = "end"
    /\ procs[w].pc = "update"
    /\ \A f \in DOMAIN procs[w].tasks : procs[w].tasks[f].pc = "done"
    /\ \A v \in Activations \ {Main, w} : procs[v].pc = "idle"

\* C23: once updateSingleFile has handled the change of a source file and
\* nothing is in flight any more, the file's output is what a full build
\* writes for it: its expansion when it is a matched document, else its
\* text as in the source tree.
C23_UpdateMatchesBuild ==
    \A w \in Activations \ {Main} :
        UpdateSettled(w) =>
            \A f \in DOMAIN procs[w].tasks :
                /\ f \in DOMAIN out
                /\ out[f] = IF f \in MatchedDocuments THEN Fresh(f).text ELSE srcContent[f]

(***************************************************************************)
(* Function specifications: one call of a function of the parser on an     *)
(* input drawn from a bounded set.  The parser is as constructed and no    *)
(* build runs.                                                             *)
(***************************************************************************)

Unbuilt ==
    /\ compDirExists = TRUE
    /\ srcExists = TRUE
    /\ compFiles = InitialCompFiles
    /\ srcContent = DocsPlain
    /\ out = EmptyMap
    /\ opts = [depth |-> Infinity, names |-> [given |-> FALSE, set |-> {}], watch |-> FALSE]
    /\ components = EmptyMap
    /\ templateCache = EmptyMap
    /\ failedComponents = EmptyMap
    /\ processing = FALSE
    /\ procs = [p \in Activations |-> IF p = Main THEN Proc("call") ELSE Proc("idle")]
    /\ exited = FALSE
    /\ edits = 0

\* The callbacks run by the call under check, in the order in which they
\* returned.
Log == hout.res.st.log

\* Number of places where sequence t occurs in sequence s.
Occurrences(s, t) ==
    Cardinality({i \in 1..(Len(s) - Len(t) + 1) : SubSeq(s, i, i + Len(t) - 1) = t})

(***************************************************************************)
(* loadComponents after loadComponents (specification SpecLoad)            *)
(***************************************************************************)

HeaderFile == File(<<>>, "header", ".html")
MenuFile == File(<<"nav">>, "menu", ".html")
NotesFile == File(<<>>, "notes", ".txt")

\* The trees under the components root: each file absent or with one of
\* two texts.
Trees ==
    UNION {[fs -> {<<"t">>, <<"w">>}] : fs \in SUBSET {HeaderFile, MenuFile, NotesFile}}

\* The tree at the first load and the tree at the later loads.
LoadInputs == [before : Trees, after : Trees]

InitLoad == Unbuilt /\ hin \in LoadInputs /\ hout = NotRun

\* loadComponents() on the first tree, then twice on the second.
LoadComponentsCalls ==
    /\ ~hout.run
    /\ With(ReadComponents(EmptyMap, hin.before), LAMBDA first :
       With(ReadComponents(first, hin.after), LAMBDA second :
           hout' = Ran([first |-> first, second |-> second,
                        again |-> ReadComponents(second, hin.after)])))
    /\ UNCHANGED <<hin, buildVars>>

NextLoad == LoadComponentsCalls

SpecLoad == InitLoad /\ [][NextLoad]_vars

\* The store that maps exactly the template files of a tree, by name, to
\* their text.
Mirror(tree) ==
    [n \in {ComponentName(f.dir, f.base) : f \in TemplateFiles(tree)} |->
        tree[CHOOSE f \in TemplateFiles(tree) : ComponentName(f.dir, f.base) = n]]

\* C15: after every loadComponents call the store maps exactly the
\* template files then under the components root to their text: a load
\* repeated over the same tree changes nothing, a changed template is
\* updated, and a removed template is gone from the store.
C15_StoreMirrorsDisk ==
    hout.run =>
        /\ hout.res.first = Mirror(hin.before)
        /\ hout.res.second = Mirror(hin.after)
        /\ hout.res.again = hout.res.second

(***************************************************************************)
(* parseConditionals on one conditional block (specification SpecCond)     *)
(***************************************************************************)

\* elif directives of a block.
MaxElifs == 1

PageIs(v) == <<"page", " ", "==", " ", Q, v, Q>>

\* Texts between the parentheses of a directive.
CondTexts ==
    { PageIs("main"),
      PageIs("login"),
      <<"(">> \o PageIs("login") \o <<")">>,
      <<"page", " ", "==", " ", "'", "main", "'">>,
      <<"page", "\\">>,
      <<"x">>,
      <<"page", " ", "==">>,
      <<"true">> }

PropsSets ==
    { <<>>, << <<"page", <<"main">> >> >>, << <<"page", <<"login">> >> >>,
      << <<"page", <<"other">> >> >>,
      << <<"x", <<"true">> >> >>, << <<"x", <<"false">> >> >> }

CondInputs ==
    [conds : UNION {[1..n -> CondTexts] : n \in 1..(MaxElifs + 1)},
     else : BOOLEAN,
     props : PropsSets]

IfBody == <<" ", "A", "\n">>
ElifBody(i) == <<"\n", "B", ToString(i), " ">>
ElseBody == <<" ", "C", " ">>

RECURSIVE ElifText(_, _)
ElifText(conds, i) ==
    IF i > Len(conds) THEN <<>>
    ELSE <<"{%elif(">> \o conds[i] \o <<")%}">> \o ElifBody(i) \o ElifText(conds, i + 1)

\* {% if (c1) %} A {% elif (c2) %} B ... {% else %} C {% endif %}
BlockText(in) ==
    <<"{%if(">> \o in.conds[1] \o <<")%}">> \o IfBody \o ElifText(in.conds, 2)
        \o (IF in.else THEN <<"{%else%}">> \o ElseBody ELSE <<>>) \o <<"{%endif%}">>

\* The body the block declares for its i-th condition.
DeclaredBody(i) == IF i = 1 THEN IfBody ELSE ElifBody(i)

\* What the block is to give: the trimmed body of the first declared
\* condition that evaluates truthy, else the trimmed else body, else
\* nothing.
RECURSIVE Chosen(_, _)
Chosen(in, i) ==
    IF i > Len(in.conds) THEN (IF in.else THEN Trim(ElseBody) ELSE <<>>)
    ELSE IF EvaluateCondition(in.conds[i], in.props) = "true" THEN Trim(DeclaredBody(i))
    ELSE Chosen(in, i + 1)

InitCond == Unbuilt /\ hin \in CondInputs /\ hout = NotRun

ParseConditionalsCall ==
    /\ ~hout.run
    /\ hout' = Ran(parseConditionals(BlockText(hin), hin.props))
    /\ UNCHANGED <<hin, buildVars>>

NextCond == ParseConditionalsCall

SpecCond == InitCond /\ [][NextCond]_vars

\* C5: whatever text stands between the parentheses of an if or elif
\* directive, parseConditionals does not raise to its caller.
C5_NeverRaises == hout.run => ~hout.res.threw

\* C6: when parseConditionals returns, a block gives the trimmed body of
\* the first of its conditions, in declaration order, that evaluates
\* truthy; the trimmed else body if none does and there is an else; and
\* otherwise the empty text.
C6_FirstTruthyBranch ==
    (hout.run /\ ~hout.res.threw) => hout.res.text = Chosen(hin, 1)

\* What a block without a truthy condition gives.
Otherwise(in) == IF in.else THEN Trim(ElseBody) ELSE <<>>

\* C18: a conditional on the bare prop name x gives its if-body when the
\* prop's value is the token true; when the value is the token false it
\* does not give the if-body, and a block without elif gives the else
\* body, or nothing when it has none.
C18_BooleanProp ==
    (hout.run /\ ~hout.res.threw /\ hin.conds[1] = <<"x">> /\ PropsHas(hin.props, "x")) =>
        /\ PropsGet(hin.props, "x") = <<"true">> => hout.res.text = Trim(IfBody)
        /\ PropsGet(hin.props, "x") = <<"false">> =>
               /\ hout.res.text # Trim(IfBody)
               /\ Len(hin.conds) = 1 => hout.res.text = Otherwise(hin)

(***************************************************************************)
(* renderComponent on a loop template (specification SpecLoop)             *)
(***************************************************************************)

\* Elements of the list.
MaxItems == 3

Elements == {"a", "b", "$&", "$$"}

LoopBodies ==
    { <<"[", Placeholder("x"), "]">>,
      <<Placeholder("x"), Placeholder("x")>>,
      <<"t">>,
      <<Placeholder("y"), " ">> }

LoopInputs ==
    [body : LoopBodies,
     items : UNION {[1..n -> Elements] : n \in 1..MaxItems},
     more : {<<>>, << <<"y", <<"w">> >> >>, << <<"x", <<"w">> >> >>}]

\* e1,...,en
RECURSIVE CommaSeparated(_)
CommaSeparated(items) ==
    IF Len(items) = 1 THEN <<items[1]>>
    ELSE <<items[1], ",">> \o CommaSeparated(Tail(items))

LoopTemplate(body) == <<ForTok("x", "items")>> \o body \o <<"{% endfor %}">>

LoopProps(in) == << <<"items", CommaSeparated(in.items)>> >> \o in.more

\* BODY with every `{{x}}` replaced by the text e.
LiteralCopy(body, e) ==
    [i \in 1..Len(body) |-> IF body[i] = Placeholder("x") THEN e ELSE body[i]]

\* The copies of the body for the elements, in list order, no separator,
\* with the props other than x substituted.
Copies(in) ==
    SubstituteProps(Flatten([n \in 1..Len(in.items) |-> LiteralCopy(in.body, in.items[n])]),
                    SelectSeq(in.more, LAMBDA pr : pr[1] # "x"), 1)

InitLoop == Unbuilt /\ hin \in LoopInputs /\ hout = NotRun

RenderLoopCall ==
    /\ ~hout.run
    /\ hout' = Ran(renderComponent([n \in {"L"} |-> LoopTemplate(hin.body)], "L",
                                   LoopProps(hin), "doc", EmptySt, 1))
    /\ UNCHANGED <<hin, buildVars>>

NextLoop == RenderLoopCall

SpecLoop == InitLoop /\ [][NextLoop]_vars

\* C7: resolving a component whose template is one for loop over `items`
\* gives, between the trace markers, one copy of the body per element, in
\* list order and without separator, each `{{x}}` replaced by the element
\* as literal text.
C7_LoopCopies ==
    hout.run =>
        /\ hout.res.kind = "frag"
        /\ hout.res.text = StartMarker("L") \o Copies(hin) \o EndMarker("L")

(***************************************************************************)
(* renderComponent on a loop whose body holds component tags               *)
(* (specification SpecOrder)                                               *)
(***************************************************************************)

\* The parts of a loop body: <B v="{{arg}}"/>, <M v="{{arg}}"/> (M is no
\* component), {{arg}}, or a text.
Part(kind, arg) == [kind |-> kind, arg |-> arg]

OrderBodies ==
    { <<Part("tag", "x")>>,
      <<Part("text", "t"), Part("tag", "x"), Part("ph", "x"), Part("text", "w")>>,
      <<Part("tag", "x"), Part("tag", "y")>>,
      <<Part("missing", "x"), Part("tag", "x")>> }

\* Elements without `$`.
PlainElements == {"a", "b"}

OrderInputs ==
    [parts : OrderBodies,
     items : UNION {[1..n -> PlainElements] : n \in 1..MaxItems},
     more : {<<>>, << <<"y", <<"w">> >> >>, << <<"x", <<"w">> >> >>}]

PartText(part) ==
    CASE part.kind = "tag" -> Tag("B", << <<"v", <<Placeholder(part.arg)>> >> >>)
      [] part.kind = "missing" -> Tag("M", << <<"v", <<Placeholder(part.arg)>> >> >>)
      [] part.kind = "ph" -> <<Placeholder(part.arg)>>
      [] OTHER -> <<part.arg>>

\* L loops over `items`; B shows its prop v.
OrderStore(parts) ==
    [n \in {"L", "B"} |->
        IF n = "L" THEN LoopTemplate(Flatten([i \in 1..Len(parts) |-> PartText(parts[i])]))
        ELSE <<"t", Placeholder("v"), "t">>]

InitOrder == Unbuilt /\ hin \in OrderInputs /\ hout = NotRun

RenderOrderCall ==
    /\ ~hout.run
    /\ hout' = Ran(renderComponent(OrderStore(hin.parts), "L", LoopProps(hin), "doc",
                                   EmptySt, 1))
    /\ UNCHANGED <<hin, buildVars>>

NextOrder == RenderOrderCall

SpecOrder == InitOrder /\ [][NextOrder]_vars

\* What stands for {{arg}} in the iteration of element e: the prop's
\* value when arg is a prop, else the element for the loop variable, else
\* the placeholder itself.
Bound(arg, e, more) ==
    IF PropsHas(more, arg) THEN PropsGet(more, arg)
    ELSE IF arg = "x" THEN <<e>> ELSE <<Placeholder(arg)>>

\* A part in the iteration of element e, its tag resolved.
PartResolved(part, e, more) ==
    CASE part.kind = "tag" ->
             StartMarker("B") \o <<"t">> \o Bound(part.arg, e, more) \o <<"t">> \o EndMarker("B")
      [] part.kind = "missing" -> Tag("M", << <<"v", Bound(part.arg, e, more)>> >>)
      [] part.kind = "ph" -> Bound(part.arg, e, more)
      [] OTHER -> <<part.arg>>

IterationResolved(parts, e, more) ==
    Flatten([i \in 1..Len(parts) |-> PartResolved(parts[i], e, more)])

\* The callbacks that the scan of L's expanded template ran.
NestedCallbacks == SelectSeq(Log, LAMBDA entry : entry.depth = 1)

\* The tags of a body, in order.
TagParts(parts) == SelectSeq(parts, LAMBDA part : part.kind \in {"tag", "missing"})

\* C17: renderComponent substitutes the props, then expands the loop, then
\* resolves the tags, then wraps and stores: a tag in a loop body is
\* resolved once per iteration, in order, with the iteration's element in
\* its attributes, and the stored cache entry is the returned fragment.
C17_TagsAfterLoops ==
    hout.run =>
        /\ hout.res.kind = "frag"
        /\ hout.res.text =
               StartMarker("L")
                   \o Flatten([n \in 1..Len(hin.items) |->
                                  IterationResolved(hin.parts, hin.items[n], hin.more)])
                   \o EndMarker("L")
        /\ Len(NestedCallbacks) = Len(hin.items) * Len(TagParts(hin.parts))
        /\ \A n \in 1..Len(hin.items) : \A k \in 1..Len(TagParts(hin.parts)) :
               NestedCallbacks[(n - 1) * Len(TagParts(hin.parts)) + k].tag =
                   Tag(IF TagParts(hin.parts)[k].kind = "tag" THEN "B" ELSE "M",
                       << <<"v", Bound(TagParts(hin.parts)[k].arg, hin.items[n], hin.more)>> >>)
        /\ CacheKey("L", LoopProps(hin)) \in DOMAIN hout.res.st.cache
        /\ hout.res.st.cache[CacheKey("L", LoopProps(hin))] = hout.res.text

\* A loop over a, b, a whose body holds a tag of B with the element in
\* its attribute was resolved: three callbacks, the third from the cache.
C17_Witness ==
    /\ hout.run
    /\ hin.items = <<"a", "b", "a">>
    /\ hin.parts = <<Part("tag", "x")>>
    /\ hin.more = <<>>
    /\ Len(NestedCallbacks) = 3
    /\ NestedCallbacks[3].cached
    /\ ~NestedCallbacks[2].cached
    /\ CacheKey("B", << <<"v", <<"b">> >> >>) \in DOMAIN hout.res.st.cache

(***************************************************************************)
(* renderComponent on a conditional that holds a conditional               *)
(* (specification SpecNested)                                              *)
(***************************************************************************)

\* The values of a boolean prop: a token, or the prop is not given.
Tokens == {"true", "false", "none"}

NestedInputs ==
    [hasUsers : Tokens,
     showEmail : Tokens,
     items : UNION {[1..n -> PlainElements] : n \in 1..MaxItems},
     loop : BOOLEAN,
     else : BOOLEAN]

\* {% if (showEmail) %}w{% endif %}
InnerConditional == <<"{%if(", "showEmail", ")%}", "w", "{%endif%}">>

\* The userList template: an if around a for (or around plain text)
\* around an if, with or without an else.
UserList(in) ==
    <<"{%if(", "hasUsers", ")%}">>
        \o (IF in.loop
            THEN <<ForTok("user", "users"), Placeholder("user")>> \o InnerConditional
                     \o <<"{% endfor %}">>
            ELSE <<"t">> \o InnerConditional)
        \o (IF in.else THEN <<"{%else%}">> \o ElseBody ELSE <<>>)
        \o <<"{%endif%}">>

BooleanProp(name, token) == IF token = "none" THEN <<>> ELSE << <<name, <<token>> >> >>

NestedProps(in) ==
    BooleanProp("hasUsers", in.hasUsers)
        \o << <<"users", CommaSeparated(in.items)>> >>
        \o BooleanProp("showEmail", in.showEmail)

InitNested == Unbuilt /\ hin \in NestedInputs /\ hout = NotRun

RenderNestedCall ==
    /\ ~hout.run
    /\ hout' = Ran(renderComponent([n \in {"userList"} |-> UserList(hin)], "userList",
                                   NestedProps(hin), "doc", EmptySt, 1))
    /\ UNCHANGED <<hin, buildVars>>

NextNested == RenderNestedCall

SpecNested == InitNested /\ [][NextNested]_vars

\* The lexemes that are directive markers.
IsDirective(tok) ==
    tok \in {"{%if(", ")%}", "{%elif(", "{%else%}", "{%endif%}", "{% endfor %}"} \cup ForToks

\* What the inner conditional gives.
InnerEvaluated(in) ==
    IF EvaluateCondition(<<"showEmail">>, NestedProps(in)) = "true" THEN <<"w">> ELSE <<>>

\* The outer if-body with its inner conditional evaluated and its loop
\* expanded.
OuterBodyEvaluated(in) ==
    IF in.loop
    THEN Flatten([n \in 1..Len(in.items) |-> <<in.items[n]>> \o InnerEvaluated(in)])
    ELSE <<"t">> \o InnerEvaluated(in)

\* C19: a conditional whose body holds a complete conditional is
\* evaluated as one unit: when the outer condition is truthy the fragment
\* is the outer if-body with the inner conditional evaluated, without the
\* outer else body and without any directive marker left.
C19_NestedConditional ==
    (hout.run /\ EvaluateCondition(<<"hasUsers">>, NestedProps(hin)) = "true") =>
        /\ hout.res.kind = "frag"
        /\ \A i \in DOMAIN hout.res.text : ~IsDirective(hout.res.text[i])
        /\ Occurrences(hout.res.text, Trim(ElseBody)) = 0
        /\ hout.res.text =
               StartMarker("userList") \o OuterBodyEvaluated(hin) \o EndMarker("userList")

(***************************************************************************)
(* parseComponentTags on one document (specification SpecScan)             *)
(***************************************************************************)

\* Segments of a document.
MaxSegments == 3

\* <!-- <K/> -->: K is named inside comments only.
CommentK == <<"<!--", " ">> \o Tag("K", <<>>) \o <<" ", "-->">>

\* A comment that reads like the scanner's own placeholder.
CommentPlaceholder == <<"<!--", PH(1), "-->">>

Segments ==
    { Tag("A", <<>>),
      Tag("M", <<>>),
      Tag("M", << <<"x", <<"a">> >> >>),
      Tag("br", <<>>),
      CommentK,
      CommentPlaceholder,
      <<"t">> }

\* A nests B, the absent M and the void br; B holds a comment.
StoreBase ==
    [n \in {"A", "B"} |->
        IF n = "A" THEN Tag("B", <<>>) \o Tag("M", <<>>) \o Tag("br", <<>>)
        ELSE <<"t">> \o CommentK]

\* The same with components named K and br.
StoreAll ==
    [n \in {"A", "B", "K", "br"} |-> IF n \in {"K", "br"} THEN <<"w">> ELSE StoreBase[n]]

ScanInputs ==
    [components : {StoreBase, StoreAll},
     segments : UNION {[1..n -> Segments] : n \in 1..MaxSegments}]

InitScan == Unbuilt /\ hin \in ScanInputs /\ hout = NotRun

ParseComponentTagsCall ==
    /\ ~hout.run
    /\ hout' = Ran(parseComponentTags(hin.components, Flatten(hin.segments), "doc", EmptySt, 0))
    /\ UNCHANGED <<hin, buildVars>>

NextScan == ParseComponentTagsCall

SpecScan == InitScan /\ [][NextScan]_vars

\* The callbacks that met a component absent from the store.
Absent == {i \in DOMAIN Log : Log[i].name \notin VOID_TAGS \cup DOMAIN hin.components}

TallyOf(failed, key) == IF key \in DOMAIN failed THEN failed[key] ELSE 0

RECURSIVE CommentRegions(_, _)
CommentRegions(text, i) ==
    IF i > Len(text) THEN {}
    ELSE IF text[i] = "<!--" /\ FindFrom(text, i + 1, {"-->"}) # 0
         THEN {SubSeq(text, i, FindFrom(text, i + 1, {"-->"}))}
                  \cup CommentRegions(text, FindFrom(text, i + 1, {"-->"}) + 1)
         ELSE CommentRegions(text, i + 1)

\* C8: every comment region of the input stands verbatim in the output
\* of parseComponentTags, as often as in the input at least, and a tag
\* inside a comment is not resolved: the component K, named inside
\* comments only, is never the subject of a callback, of a cache entry or
\* of a failed-resolution record.
C8_CommentsProtected ==
    hout.run =>
        /\ \A c \in CommentRegions(Flatten(hin.segments), 1) :
               Occurrences(hout.res.text, c) >= Occurrences(Flatten(hin.segments), c)
        /\ \A i \in DOMAIN Log : Log[i].name # "K"
        /\ \A key \in DOMAIN hout.res.st.cache : key[1] # "K"
        /\ \A key \in DOMAIN hout.res.st.failed : key[1] # "K"

\* A document with a tag of K inside a comment and tags outside was
\* scanned, K being a component of the store.
C8_Witness ==
    /\ hout.run
    /\ "K" \in DOMAIN hin.components
    /\ \E n \in DOMAIN hin.segments : hin.segments[n] = CommentK
    /\ Log # <<>>

\* C9: a self-closing tag with a void element name is no component, even
\* when the store holds a component of that name: its text stays in the
\* output, and there is no lookup, no cache entry and no failed-resolution
\* record for it.
C9_VoidTags ==
    hout.run =>
        /\ \A i \in DOMAIN Log : Log[i].name \in VOID_TAGS => Log[i].res = "void"
        /\ \A key \in DOMAIN hout.res.st.cache : key[1] \notin VOID_TAGS
        /\ \A key \in DOMAIN hout.res.st.failed : key[1] \notin VOID_TAGS
        /\ \A i \in DOMAIN Log :
               Log[i].name \in VOID_TAGS =>
                   Occurrences(hout.res.text, Log[i].tag)
                       >= Cardinality({j \in DOMAIN Log : Log[j].tag = Log[i].tag})
        /\ \A n \in VOID_TAGS : Occurrences(hout.res.text, StartMarker(n)) = 0

\* A void tag was met in the document and in the expansion of a
\* component, the store holding a component named br.
C9_Witness ==
    /\ hout.run
    /\ "br" \in DOMAIN hin.components
    /\ \E i, j \in DOMAIN Log :
           /\ Log[i].name = "br" /\ Log[i].depth = 0
           /\ Log[j].name = "br" /\ Log[j].depth > 0

\* The segments without a component tag: a void tag, comments, text.
PlainSegments == {Tag("br", <<>>), CommentK, CommentPlaceholder, <<"t">>}

\* C12: a document without component tags (comments and void tags
\* allowed) comes out of parseComponentTags as it went in, and the call
\* leaves the cache and the failed-resolution record as they were.
C12_CopyThrough ==
    (hout.run /\ \A n \in DOMAIN hin.segments : hin.segments[n] \in PlainSegments) =>
        /\ ~hout.res.threw
        /\ hout.res.text = Flatten(hin.segments)
        /\ hout.res.st.cache = EmptySt.cache
        /\ hout.res.st.failed = EmptySt.failed

\* A document of two comments and a void tag was scanned, the store
\* holding components of the names that occur in it.
C12_Witness ==
    /\ hout.run
    /\ hin.segments = <<CommentK, Tag("br", <<>>), CommentPlaceholder>>
    /\ {"K", "br"} \subseteq DOMAIN hin.components
    /\ hout.res.text = Flatten(hin.segments)

(***************************************************************************)
(* parseComponentTags over components that include themselves              *)
(* (specification SpecCycle)                                               *)
(***************************************************************************)

\* S includes itself; P and R include each other; B includes nothing.
StoreCycles ==
    [n \in {"S", "P", "R", "B"} |->
        CASE n = "S" -> <<"t">> \o Tag("S", <<>>)
          [] n = "P" -> Tag("B", <<>>) \o Tag("R", <<>>)
          [] n = "R" -> Tag("P", << <<"x", <<"a">> >> >>)
          [] OTHER -> <<"t">>]

\* One cycle through S, P and R.
StoreLongCycle ==
    [n \in {"S", "P", "R", "B"} |->
        CASE n = "S" -> Tag("P", <<>>)
          [] n = "P" -> Tag("B", <<>>) \o Tag("R", <<>>)
          [] n = "R" -> Tag("S", <<>>) \o <<"t">>
          [] OTHER -> <<"t">>]

\* The components on a cycle, in either store.
OnCycle == {"S", "P", "R"}

CycleSegments ==
    { Tag("S", <<>>),
      Tag("S", << <<"x", <<"a">> >> >>),
      Tag("P", <<>>),
      Tag("R", <<>>),
      Tag("B", <<>>),
      <<"t">> }

CycleInputs ==
    [components : {StoreCycles, StoreLongCycle},
     segments : UNION {[1..n -> CycleSegments] : n \in 1..MaxSegments}]

InitCycle == Unbuilt /\ hin \in CycleInputs /\ hout = NotRun

SpecCycle == InitCycle /\ [][NextScan]_vars

\* C14: the resolution of a component that includes itself, directly or
\* through other components, returns no fragment: it ends in the error
\* of the call that exceeds the stack, with every frame of the stack in
\* use, and no component of the cycle gets a cache entry.
C14_CyclesNeverReturn ==
    hout.run =>
        /\ \A i \in DOMAIN Log : Log[i].name \in OnCycle => Log[i].res = "throw"
        /\ (\E i \in DOMAIN Log : Log[i].name \in OnCycle) =>
               /\ hout.res.threw
               /\ \E i \in DOMAIN Log : Log[i].depth = MaxStack /\ Log[i].res = "throw"
        /\ \A key \in DOMAIN hout.res.st.cache : key[1] \notin OnCycle

\* A document that names B and then P was scanned: B has its cache entry
\* and the expansion of P has thrown.
C14_Witness ==
    /\ hout.run
    /\ hin.segments = <<Tag("B", <<>>), Tag("P", <<>>)>>
    /\ hout.res.threw
    /\ <<"B", <<>>>> \in DOMAIN hout.res.st.cache
    /\ \E i \in DOMAIN Log : Log[i].name = "R" /\ Log[i].res = "throw"

(***************************************************************************)
(* parseComponentTags over components that include no component twice on   *)
(* a chain (specification SpecChain)                                       *)
(***************************************************************************)

\* StoreBase with a component M that loops over its prop `items`.
StoreLoop ==
    [n \in {"A", "B", "M"} |-> IF n = "M" THEN TemplateL ELSE StoreBase[n]]

ChainInputs ==
    [components : {StoreBase, StoreAll, StoreLoop},
     segments : UNION {[1..n -> Segments] : n \in 1..MaxSegments}]

InitChain == Unbuilt /\ hin \in ChainInputs /\ hout = NotRun

SpecChain == InitChain /\ [][NextScan]_vars

Greatest(S) == CHOOSE i \in S : \A j \in S : j <= i

\* The names a component's template includes: those of its self-closing
\* tags outside comments, void names apart.
Includes(store, n) ==
    With(ComponentMatches(ExtractComments(store[n], 1, 0).text, 1), LAMBDA ms :
        {ms[k].componentTag : k \in DOMAIN ms} \ VOID_TAGS)

\* The number of names on the longest inclusion chain that starts at n,
\* followed for `fuel` inclusions; a name absent from the store ends its
\* chain.
RECURSIVE ChainFrom(_, _, _)
ChainFrom(store, n, fuel) ==
    IF n \notin DOMAIN store \/ fuel = 0 THEN 1
    ELSE 1 + Greatest({0} \cup {ChainFrom(store, m, fuel - 1) : m \in Includes(store, n)})

\* No chain of the store comes back to a name it holds.
Acyclic(store) ==
    \A n \in DOMAIN store :
        ChainFrom(store, n, Cardinality(DOMAIN store) + 1)
            <= Cardinality(DOMAIN store) + 1

LongestChain(store) ==
    Greatest({1} \cup {ChainFrom(store, n, Cardinality(DOMAIN store) + 1) :
                           n \in DOMAIN store})

\* The callbacks for tags that name a component of the store.
Present == {i \in DOMAIN Log : Log[i].name \in DOMAIN hin.components \ VOID_TAGS}

\* text starts with the component's start marker and ends with its end
\* marker.
Marked(text, name) ==
    /\ Len(text) >= Len(StartMarker(name)) + Len(EndMarker(name))
    /\ SubSeq(text, 1, Len(StartMarker(name))) = StartMarker(name)
    /\ SubSeq(text, Len(text) - Len(EndMarker(name)) + 1, Len(text)) = EndMarker(name)

\* C24: over a store whose inclusions form no cycle, parseComponentTags
\* returns for every document; no call of renderComponent is nested deeper
\* than the longest inclusion chain has names; and every tag that names a
\* component of the store is replaced by a fragment that starts with that
\* component's start marker and ends with its end marker, which stand in
\* the output once per replaced tag at least.
C24_AcyclicResolves ==
    (hout.run /\ Acyclic(hin.components)) =>
        /\ ~hout.res.threw
        /\ \A i \in DOMAIN Log :
               Log[i].res # "void" => Log[i].depth + 1 <= LongestChain(hin.components)
        /\ \A i \in Present : Log[i].res = "frag"
        /\ \A key \in DOMAIN hout.res.st.cache : Marked(hout.res.st.cache[key], key[1])
        /\ \A i \in Present :
               /\ Occurrences(hout.res.text, StartMarker(Log[i].name))
                      >= Cardinality({j \in Present : Log[j].name = Log[i].name})
               /\ Occurrences(hout.res.text, EndMarker(Log[i].name))
                      >= Cardinality({j \in Present : Log[j].name = Log[i].name})

====
